---------------------------- MODULE Spec2Model ----------------------------
(***************************************************************************)
(* The streaming chat orchestrator useAIChat                               *)
(* (src/frontend/hooks/useConversationScroll.ts, lines 120-450): the       *)
(* message log, the streaming flags, the error slot, the AbortController   *)
(* ref, and one stream consumer (processStream) per send.  The transport   *)
(* (handlers.sendMessage / stopStreaming / onError and the ReadableStream  *)
(* it returns) is the environment: it resolves or rejects a send, and a    *)
(* stream delivers a chunk, closes, or makes the pending read throw.       *)
(*                                                                         *)
(* One action is one synchronous run of the event loop: an operation up    *)
(* to its first await, or the continuation after one await.  React state   *)
(* setters are functional updates applied in call order, so the state      *)
(* after a run is the composition of the run's updates.  Operations are    *)
(* called from the latest render, so the `messages` a callback closes      *)
(* over is the log of the state the action starts in.                      *)
(***************************************************************************)
EXTENDS Integers, Sequences, FiniteSets, TLC

\* ---------------------------------------------------------------- bounds
\* at most MaxSends calls of handlers.sendMessage, at most MaxChunks chunks
\* per stream, and at most MaxWork units of transport work, where a send is
\* three units and a delivered chunk is two (so: three sends without chunks,
\* two sends with one chunk, or one send with three chunks)
MaxSends == 3
MaxChunks == 3
MaxWork == 9
\* the streams read in isolation (SpecStream): at most MaxStreamChunks chunks
\* per stream and MaxPairChunks chunks over the two streams
MaxStreamChunks == 2
MaxPairChunks == 4

\* ------------------------------------------------------------ value sets
NoController == 0
NoError == "null"
NoValue == "undefined"

Contents == {"Hello", "Why"}
Models == {"gpt-4o"}
\* params.selectedSources: the selected DataSourceFile objects, in order
SelectedSources ==
  <<[id |-> "file-2", filename |-> "b.pdf"], [id |-> "file-1", filename |-> "a.pdf"]>>
TokenTexts == {"Par", "is"}
CitationDocs == {"faq.pdf"}
ReasoningTexts == {"thinking"}
ToolNames == {"search"}
ErrorTexts == {"rate limited"}
\* what a rejected handlers.sendMessage / reader.read() throws: an Error with
\* this message, or (NoValue) a value that is not an Error
Rejections == {NoValue}
ReadFailures == {"aborted"}

Chunks ==
  {[type |-> "token", val |-> t] : t \in TokenTexts}
    \cup {[type |-> "citation", val |-> c] : c \in CitationDocs}
    \cup {[type |-> "reasoning", val |-> r] : r \in ReasoningTexts}
    \cup {[type |-> "tool_call", val |-> n] : n \in ToolNames}
    \cup {[type |-> "error", val |-> e] : e \in ErrorTexts}
    \cup {[type |-> "done", val |-> NoValue]}

Sends == 1..MaxSends

VARIABLES
  messages,            \* useState<ChatMessage[]>: the conversation log
  isStreaming,         \* useState(false)
  isLoading,           \* useState(false)
  error,               \* useState<Error | null>: the error's message, or NoError
  abortControllerRef,  \* useRef<AbortController | null>: the controller's send, or NoController
  selectedModel,       \* params.selectedModel.id
  nextId,              \* the next value crypto.randomUUID() returns
  nSends,              \* number of handlers.sendMessage calls so far
  pc,                  \* per send: where its async sendMessage/processStream stands
  target,              \* per send: id of the assistantMessage it writes into
  delivered,           \* per send: the chunks its stream has delivered so far
  aborted,             \* the controllers handlers.stopStreaming was called with
  sendCalls,           \* payloads the latest step passed to handlers.sendMessage
  stopCalls,           \* controllers the latest step passed to handlers.stopStreaming
  onErrorCalls,        \* (error, context) the latest step passed to handlers.onError
  returned,            \* the early return the latest step took without any effect
  releaseCalls,        \* readers the latest step called releaseLock() on
  regenerateCalls      \* ids the latest step passed to handlers.regenerateResponse

vars == <<messages, isStreaming, isLoading, error, abortControllerRef,
          selectedModel, nextId, nSends, pc, target, delivered, aborted,
          sendCalls, stopCalls, onErrorCalls, returned, releaseCalls,
          regenerateCalls>>

\* --------------------------------------------------------------- helpers
Ids(log) == {log[i].id : i \in DOMAIN log}

\* messages.findIndex(m => m.id === id), 1-based; 0 stands for -1
FindIndex(log, id) ==
  IF id \in Ids(log)
  THEN CHOOSE i \in DOMAIN log : log[i].id = id /\ \A j \in 1..(i-1) : log[j].id # id
  ELSE 0

\* prev.slice(0, messageIndex): the turns before the (1-based) position idx
SliceInclusive(log, idx) == SubSeq(log, 1, idx)
Slice(log, idx) == SubSeq(log, 1, idx - 1)

\* messages[messageIndex - 1] exists and has role "user"
HasUserAnyRole(log, idx) == idx > 1
HasUserMessage(log, idx) == idx > 1 /\ log[idx - 1].role = "user"

Turn(log, id) == log[FindIndex(log, id)]

\* userMessage.content, where userMessage = messages[messageIndex - 1]
ResendContentOfTarget(log, idx) == log[idx].content
ResendContent(log, idx) == log[idx - 1].content

\* selectedSources.map(s => s.id)
SourceFilenames(sources) == [i \in DOMAIN sources |-> sources[i].filename]
SourceIds(sources) == [i \in DOMAIN sources |-> sources[i].id]

\* the payload object sendMessage builds
Payload(content, history) ==
  [message |-> content, dataSources |-> SourceIds(SelectedSources),
   model |-> selectedModel, conversationHistory |-> history,
   conversationId |-> NoValue]

RECURSIVE TotalDelivered(_)
TotalDelivered(k) == IF k = 0 THEN 0 ELSE Len(delivered[k]) + TotalDelivered(k - 1)

Work == 3 * nSends + 2 * TotalDelivered(MaxSends)

UserMessage(id, content) ==
  [id |-> id, role |-> "user", content |-> content, status |-> "completed",
   model |-> NoValue, citations |-> <<>>, reasoning |-> NoValue, toolCalls |-> <<>>]

AssistantMessage(id, modelId) ==
  [id |-> id, role |-> "assistant", content |-> "", status |-> "streaming",
   model |-> modelId, citations |-> <<>>, reasoning |-> NoValue, toolCalls |-> <<>>]

\* the two setMessages(prev => [...prev, m]) of sendMessage, in call order
AppendUserOnly(log, userMessage, assistantMessage) == Append(log, userMessage)
AppendAssistantFirst(log, userMessage, assistantMessage) ==
  Append(Append(log, assistantMessage), userMessage)
AppendTurns(log, userMessage, assistantMessage) ==
  Append(Append(log, userMessage), assistantMessage)

\* prev.map(msg => msg.status === "streaming" ? {...msg, status: "stopped"} : msg)
MarkStoppedNone(log) == log
MarkStopped(log) ==
  [i \in DOMAIN log |->
     IF log[i].status = "streaming" THEN [log[i] EXCEPT !.status = "stopped"] ELSE log[i]]

\* prev.map(msg => msg.id === id ? {...msg, status} : msg)
SetStatusRemoves(log, id, st) ==
  LET Keep(msg) == msg.id # id IN SelectSeq(log, Keep)
SetStatus(log, id, st) ==
  [i \in DOMAIN log |-> IF log[i].id = id THEN [log[i] EXCEPT !.status = st] ELSE log[i]]

\* chunk.content ?? ""  /  chunk.error ?? "Unknown error"
TokenContent(chunk) == IF chunk.val = NoValue THEN "" ELSE chunk.val
ErrorMessage(chunk) == IF chunk.val = NoValue THEN "Unknown error" ELSE chunk.val

\* the switch of processStream: the setMessages update of one chunk
ApplyTokenOverwrite(msg, chunk) == [msg EXCEPT !.content = TokenContent(chunk)]
ApplyTokenSharedBuffer(msg, chunk) ==
  [msg EXCEPT !.content = messages[Len(messages)].content \o TokenContent(chunk)]
ApplyToken(msg, chunk) == [msg EXCEPT !.content = msg.content \o TokenContent(chunk)]
\* case "citation" rebuilds annotations and keeps reasoning only when it is
\* truthy: ...(msg.annotations?.reasoning && { reasoning }) drops a reasoning of ""
ApplyCitationOverwrite(msg, chunk) == [msg EXCEPT !.citations = <<chunk.val>>]
ApplyCitation(msg, chunk) ==
  [msg EXCEPT !.citations = Append(msg.citations, chunk.val),
              !.reasoning = IF msg.reasoning = "" THEN NoValue ELSE msg.reasoning]
ApplyReasoning(msg, chunk) == [msg EXCEPT !.reasoning = chunk.val]
ApplyToolCall(msg, chunk) == [msg EXCEPT !.toolCalls = Append(msg.toolCalls, chunk.val)]
ApplyErrorKeepsStatus(msg, chunk) == msg
ApplyError(msg, chunk) == [msg EXCEPT !.status = "error"]
ApplyDone(msg, chunk) == [msg EXCEPT !.status = "completed"]

ApplyChunkToMessage(msg, chunk) ==
  CASE chunk.type = "token" -> ApplyToken(msg, chunk)
    [] chunk.type = "citation" -> ApplyCitation(msg, chunk)
    [] chunk.type = "reasoning" -> ApplyReasoning(msg, chunk)
    [] chunk.type = "tool_call" -> ApplyToolCall(msg, chunk)
    [] chunk.type = "error" -> ApplyError(msg, chunk)
    [] chunk.type = "done" -> ApplyDone(msg, chunk)

ApplyChunkUpsert(log, id, chunk) ==
  IF id \in Ids(log)
  THEN [i \in DOMAIN log |->
          IF log[i].id = id THEN ApplyChunkToMessage(log[i], chunk) ELSE log[i]]
  ELSE Append(log, ApplyChunkToMessage(AssistantMessage(id, selectedModel), chunk))
ApplyChunkAboveSequence3(log, id, chunk) ==
  [i \in DOMAIN log |->
     IF log[i].id = id /\ chunk.sequence > 3
     THEN ApplyChunkToMessage(log[i], chunk) ELSE log[i]]
ApplyChunkToStreaming(log, id, chunk) ==
  [i \in DOMAIN log |->
     IF log[i].status = "streaming" THEN ApplyChunkToMessage(log[i], chunk) ELSE log[i]]
ApplyChunk(log, id, chunk) ==
  [i \in DOMAIN log |->
     IF log[i].id = id THEN ApplyChunkToMessage(log[i], chunk) ELSE log[i]]

\* -------------------------------------------------------------- initial
Init ==
  /\ messages = <<>>
  /\ isStreaming = FALSE
  /\ isLoading = FALSE
  /\ error = NoError
  /\ abortControllerRef = NoController
  /\ selectedModel \in Models
  /\ nextId = 1
  /\ nSends = 0
  /\ pc = [k \in Sends |-> "unused"]
  /\ target = [k \in Sends |-> 0]
  /\ delivered = [k \in Sends |-> <<>>]
  /\ aborted = {}
  /\ sendCalls = <<>>
  /\ stopCalls = <<>>
  /\ onErrorCalls = <<>>
  /\ returned = "none"
  /\ releaseCalls = <<>>
  /\ regenerateCalls = <<>>

\* ------------------------------------------------------------ operations

\* sendMessage(content) up to `await handlers.sendMessage(payload)`, run on
\* the log `base` (the pending state of setMessages when it is called) and
\* with `history` the `messages` its closure captured.
SendMessageFrom(base, history, content) ==
  LET k == nSends + 1
      userMessage == UserMessage(nextId, content)
      assistantMessage == AssistantMessage(nextId + 1, selectedModel)
  IN /\ nSends < MaxSends
     /\ Work + 3 <= MaxWork
     /\ error' = NoError
     /\ messages' = AppendTurns(base, userMessage, assistantMessage)
     /\ nextId' = nextId + 2
     /\ abortControllerRef' = k
     /\ isStreaming' = TRUE
     /\ isLoading' = TRUE
     /\ sendCalls' = <<Payload(content, history)>>
     /\ nSends' = k
     /\ pc' = [pc EXCEPT ![k] = "awaitSend"]
     /\ target' = [target EXCEPT ![k] = assistantMessage.id]
     /\ stopCalls' = <<>>
     /\ onErrorCalls' = <<>>
     /\ returned' = "none" /\ releaseCalls' = <<>> /\ regenerateCalls' = <<>>
     /\ UNCHANGED <<selectedModel, delivered, aborted>>

SendMessage(content) == SendMessageFrom(messages, messages, content)

\* `await handlers.sendMessage(payload)` resolves: setIsLoading(false), then
\* processStream acquires the reader and awaits its first read
SendResolve(k) ==
  /\ pc[k] = "awaitSend"
  /\ isLoading' = FALSE
  /\ pc' = [pc EXCEPT ![k] = "reading"]
  /\ sendCalls' = <<>> /\ stopCalls' = <<>> /\ onErrorCalls' = <<>> /\ returned' = "none" /\ releaseCalls' = <<>> /\ regenerateCalls' = <<>>
  /\ UNCHANGED <<messages, isStreaming, error, abortControllerRef, selectedModel,
                 nextId, nSends, target, delivered, aborted>>

\* `await handlers.sendMessage(payload)` rejects: the catch block of sendMessage
SendMessageCatchRetries(k, thrown) ==
  LET errorObj == IF thrown = NoValue THEN "Send message failed" ELSE thrown
  IN /\ pc[k] = "awaitSend"
     /\ isLoading' = FALSE
     /\ isStreaming' = FALSE
     /\ abortControllerRef' = NoController
     /\ error' = errorObj
     /\ onErrorCalls' = <<[error |-> errorObj, context |-> "sendMessage"]>>
     /\ messages' = SetStatus(messages, target[k], "error")
     /\ pc' = [pc EXCEPT ![k] = "finished"]
     /\ sendCalls' = <<Payload(messages[1].content, messages)>>
     /\ stopCalls' = <<>> /\ returned' = "none" /\ releaseCalls' = <<>> /\ regenerateCalls' = <<>>
     /\ UNCHANGED <<selectedModel, nextId, nSends, target, delivered, aborted>>
SendMessageCatch(k, thrown) ==
  LET errorObj == IF thrown = NoValue THEN "Send message failed" ELSE thrown
  IN /\ pc[k] = "awaitSend"
     /\ isLoading' = FALSE
     /\ isStreaming' = FALSE
     /\ abortControllerRef' = NoController
     /\ error' = errorObj
     /\ onErrorCalls' = <<[error |-> errorObj, context |-> "sendMessage"]>>
     /\ messages' = SetStatus(messages, target[k], "error")
     /\ pc' = [pc EXCEPT ![k] = "finished"]
     /\ sendCalls' = <<>> /\ stopCalls' = <<>> /\ returned' = "none" /\ releaseCalls' = <<>> /\ regenerateCalls' = <<>>
     /\ UNCHANGED <<selectedModel, nextId, nSends, target, delivered, aborted>>

\* one iteration of the read loop of processStream: reader.read() resolved
\* with a chunk, the switch applied it, and the loop awaits the next read
\* (the `break` of each case leaves the switch, not the while loop)
ProcessStreamRead(k, chunk) ==
  /\ pc[k] = "reading"
  /\ messages' = ApplyChunk(messages, target[k], chunk)
  /\ IF chunk.type = "error"
     THEN /\ error' = ErrorMessage(chunk)
          /\ onErrorCalls' = <<[error |-> ErrorMessage(chunk), context |-> "stream"]>>
     ELSE /\ error' = error
          /\ onErrorCalls' = <<>>
  /\ delivered' = [delivered EXCEPT ![k] = Append(@, chunk)]
  /\ sendCalls' = <<>> /\ stopCalls' = <<>> /\ returned' = "none" /\ releaseCalls' = <<>> /\ regenerateCalls' = <<>>
  /\ UNCHANGED <<isStreaming, isLoading, abortControllerRef, selectedModel,
                 nextId, nSends, pc, target, aborted>>

ProcessStreamChunk(k, chunk) ==
  /\ Work + 2 <= MaxWork
  /\ Len(delivered[k]) < MaxChunks
  /\ ProcessStreamRead(k, chunk)

\* the finally block of processStream
ProcessStreamFinallyKeepsHandle ==
  /\ isStreaming' = FALSE
  /\ abortControllerRef' = abortControllerRef
ProcessStreamFinallyKeepsFlag ==
  /\ isStreaming' = isStreaming
  /\ abortControllerRef' = NoController
ProcessStreamFinally ==
  /\ isStreaming' = FALSE
  /\ abortControllerRef' = NoController

\* reader.read() resolved with done: true: break, then the finally block
ProcessStreamClosed(k) ==
  /\ pc[k] = "reading"
  /\ ProcessStreamFinally
  /\ pc' = [pc EXCEPT ![k] = "finished"]
  /\ sendCalls' = <<>> /\ stopCalls' = <<>> /\ onErrorCalls' = <<>> /\ returned' = "none" /\ releaseCalls' = <<>> /\ regenerateCalls' = <<>>
  /\ UNCHANGED <<messages, isLoading, error, selectedModel, nextId, nSends,
                 target, delivered, aborted>>

\* reader.read() rejected: the catch block, then the finally block
ProcessStreamCatch(k, thrown) ==
  LET errorObj == IF thrown = NoValue THEN "Stream read error" ELSE thrown
  IN /\ pc[k] = "reading"
     /\ error' = errorObj
     /\ onErrorCalls' = <<[error |-> errorObj, context |-> "stream"]>>
     /\ messages' = SetStatus(messages, target[k], "error")
     /\ ProcessStreamFinally
     /\ pc' = [pc EXCEPT ![k] = "finished"]
     /\ sendCalls' = <<>> /\ stopCalls' = <<>> /\ returned' = "none" /\ releaseCalls' = <<>> /\ regenerateCalls' = <<>>
     /\ UNCHANGED <<isLoading, selectedModel, nextId, nSends, target, delivered, aborted>>

\* regenerateResponse(messageId)
RegenerateResponse(messageId) ==
  LET messageIndex == FindIndex(messages, messageId)
      hasUser == HasUserMessage(messages, messageIndex)
  IN IF messageIndex = 0
     THEN /\ returned' = "regenerateResponse: messageIndex === -1" /\ releaseCalls' = <<>> /\ regenerateCalls' = <<>>
          /\ sendCalls' = <<>> /\ stopCalls' = <<>> /\ onErrorCalls' = <<>>
          /\ UNCHANGED <<messages, isStreaming, isLoading, error, abortControllerRef,
                         selectedModel, nextId, nSends, pc, target, delivered, aborted>>
     ELSE IF ~hasUser
     THEN /\ onErrorCalls' = <<[error |-> "Cannot regenerate: user message not found",
                                context |-> "regenerateResponse"]>>
          /\ sendCalls' = <<>> /\ stopCalls' = <<>> /\ returned' = "none" /\ releaseCalls' = <<>> /\ regenerateCalls' = <<>>
          /\ UNCHANGED <<messages, isStreaming, isLoading, error, abortControllerRef,
                         selectedModel, nextId, nSends, pc, target, delivered, aborted>>
     ELSE SendMessageFrom(Slice(messages, messageIndex), messages,
                          ResendContent(messages, messageIndex))

\* stopStreaming(): `if (controller)`
HasControllerAlways(ref) == TRUE
HasController(ref) == ref # NoController

\* stopStreaming()
StopStreaming ==
  /\ IF HasController(abortControllerRef)
     THEN /\ stopCalls' = <<abortControllerRef>>
          /\ aborted' = aborted \cup {abortControllerRef}
          /\ isStreaming' = FALSE
          /\ abortControllerRef' = NoController
          /\ messages' = MarkStopped(messages)
     ELSE /\ stopCalls' = <<>>
          /\ UNCHANGED <<aborted, isStreaming, abortControllerRef, messages>>
  /\ releaseCalls' = <<>> /\ regenerateCalls' = <<>>
  /\ returned' = IF HasController(abortControllerRef) THEN "none"
                 ELSE "stopStreaming: controller === null"
  /\ sendCalls' = <<>> /\ onErrorCalls' = <<>>
  /\ UNCHANGED <<isLoading, error, selectedModel, nextId, nSends, pc, target, delivered>>

\* clearError()
ClearError ==
  /\ error' = NoError
  /\ sendCalls' = <<>> /\ stopCalls' = <<>> /\ onErrorCalls' = <<>> /\ returned' = "none" /\ releaseCalls' = <<>> /\ regenerateCalls' = <<>>
  /\ UNCHANGED <<messages, isStreaming, isLoading, abortControllerRef, selectedModel,
                 nextId, nSends, pc, target, delivered, aborted>>

\* clearMessages()
ClearMessagesCancels ==
  /\ messages' = <<>>
  /\ error' = NoError
  /\ isStreaming' = FALSE
  /\ abortControllerRef' = NoController
  /\ stopCalls' = IF abortControllerRef # NoController THEN <<abortControllerRef>> ELSE <<>>
  /\ sendCalls' = <<>> /\ onErrorCalls' = <<>> /\ returned' = "none" /\ releaseCalls' = <<>> /\ regenerateCalls' = <<>>
  /\ UNCHANGED <<isLoading, selectedModel, nextId, nSends, pc, target, delivered, aborted>>
ClearMessages ==
  /\ messages' = <<>>
  /\ error' = NoError
  /\ isStreaming' = FALSE
  /\ abortControllerRef' = NoController
  /\ sendCalls' = <<>> /\ stopCalls' = <<>> /\ onErrorCalls' = <<>> /\ returned' = "none" /\ releaseCalls' = <<>> /\ regenerateCalls' = <<>>
  /\ UNCHANGED <<isLoading, selectedModel, nextId, nSends, pc, target, delivered, aborted>>

Next ==
  \/ \E c \in Contents : SendMessage(c)
  \/ \E k \in Sends : SendResolve(k)
  \/ \E k \in Sends, e \in Rejections : SendMessageCatch(k, e)
  \/ \E k \in Sends, chunk \in Chunks : ProcessStreamChunk(k, chunk)
  \/ \E k \in Sends : ProcessStreamClosed(k)
  \/ \E k \in Sends, e \in ReadFailures : ProcessStreamCatch(k, e)
  \/ \E id \in 0..(nextId - 1) : RegenerateResponse(id)
  \/ StopStreaming
  \/ ClearError
  \/ ClearMessages

Spec == Init /\ [][Next]_vars

\* ------------------------------------------------------ presentation layer
\* The operations as the components call them: PromptInputAdapter
\* (components/chat/ChatHeader.tsx) submits and stops, MessageAdapter
\* (components/chat/MessageAdapter.tsx) regenerates, and ChatPage wires
\* onRegenerate to regenerateResponse.  No component calls clearMessages.
SubmitTexts == Contents \cup {"  "}

\* message.text.trim()
Trim(text) == IF text \in {"", " ", "  "} THEN "" ELSE text

\* PromptInputAdapter.handleSubmit(message)
HandleSubmit(text) ==
  IF Trim(text) = "" \/ isStreaming
  THEN /\ returned' = "handleSubmit: empty or streaming"
       /\ sendCalls' = <<>> /\ stopCalls' = <<>> /\ onErrorCalls' = <<>>
       /\ releaseCalls' = <<>> /\ regenerateCalls' = <<>>
       /\ UNCHANGED <<messages, isStreaming, isLoading, error, abortControllerRef,
                      selectedModel, nextId, nSends, pc, target, delivered, aborted>>
  ELSE SendMessage(text)

\* PromptInputAdapter.handleStop()
HandleStop == StopStreaming

\* the Dismiss button of the error display
Dismiss == error # NoError /\ ClearError

\* MessageAdapter: shouldShowActions of the message at position i
ShouldShowActions(i) ==
  messages[i].role = "assistant" /\ messages[i].status # "streaming"

\* MessageAdapter.handleRegenerate() of the message at position i
HandleRegenerate(i) ==
  /\ ShouldShowActions(i)
  /\ RegenerateResponse(messages[i].id)

NextUI ==
  \/ \E text \in SubmitTexts : HandleSubmit(text)
  \/ \E i \in DOMAIN messages : HandleRegenerate(i)
  \/ HandleStop
  \/ Dismiss
  \/ \E k \in Sends : SendResolve(k)
  \/ \E k \in Sends, e \in Rejections : SendMessageCatch(k, e)
  \/ \E k \in Sends, chunk \in Chunks : ProcessStreamChunk(k, chunk)
  \/ \E k \in Sends : ProcessStreamClosed(k)
  \/ \E k \in Sends, e \in ReadFailures : ProcessStreamCatch(k, e)

SpecUI == Init /\ [][NextUI]_vars

\* ------------------------------------------------------- streams in isolation
\* Two sends whose handlers.sendMessage calls have resolved, and from then on
\* only their streams deliver chunks.  Chunks carry the `sequence` field of
\* StreamChunk: the first stream numbers its chunks 9, 4, 4, 1, 0 (decreasing,
\* repeated, with gaps), the second 3, 3, 4, 5, ...
StreamCitations == {"faq.pdf", "guide.pdf"}
StreamReasonings == {"thinking", ""}
StreamToolNames == {"search", "fetch"}
StreamErrors == {"rate limited", "overloaded"}

StreamPayloads ==
  {[type |-> "token", val |-> t] : t \in TokenTexts}
    \cup {[type |-> "citation", val |-> c] : c \in StreamCitations}
    \cup {[type |-> "reasoning", val |-> r] : r \in StreamReasonings}
    \cup {[type |-> "tool_call", val |-> n] : n \in StreamToolNames}
    \cup {[type |-> "error", val |-> e] : e \in StreamErrors}
    \cup {[type |-> "done", val |-> NoValue]}

StreamSequence(k, i) ==
  IF k = 1 THEN (IF i = 1 THEN 9 ELSE IF i \in {2, 3} THEN 4 ELSE IF i = 4 THEN 1 ELSE 0)
  ELSE (IF i <= 2 THEN 3 ELSE i + 1)

StreamChunks(k) ==
  {[type |-> p.type, val |-> p.val,
    sequence |-> StreamSequence(k, Len(delivered[k]) + 1)] : p \in StreamPayloads}

\* the state after sendMessage("Hello"), sendMessage("Why") and the
\* resolution of both handlers.sendMessage calls
InitStream ==
  /\ selectedModel \in Models
  /\ messages = AppendTurns(AppendTurns(<<>>, UserMessage(1, "Hello"),
                                        AssistantMessage(2, selectedModel)),
                            UserMessage(3, "Why"), AssistantMessage(4, selectedModel))
  /\ isStreaming = TRUE
  /\ isLoading = FALSE
  /\ error = NoError
  /\ abortControllerRef = 2
  /\ nextId = 5
  /\ nSends = 2
  /\ pc = [k \in Sends |-> IF k <= 2 THEN "reading" ELSE "unused"]
  /\ target = [k \in Sends |-> IF k <= 2 THEN 2 * k ELSE 0]
  /\ delivered = [k \in Sends |-> <<>>]
  /\ aborted = {}
  /\ sendCalls = <<>>
  /\ stopCalls = <<>>
  /\ onErrorCalls = <<>>
  /\ returned = "none"
  /\ releaseCalls = <<>>
  /\ regenerateCalls = <<>>

\* one iteration of the read loop, for a chunk of the isolated streams
StreamDeliver(k, chunk) ==
  /\ Len(delivered[k]) < MaxStreamChunks
  /\ TotalDelivered(MaxSends) < MaxPairChunks
  /\ ProcessStreamRead(k, chunk)

NextStream == \E k \in Sends : \E chunk \in StreamChunks(k) : StreamDeliver(k, chunk)

SpecStream == InitStream /\ [][NextStream]_vars

\* -------------------------------------------------------------------
\* Properties
\* -------------------------------------------------------------------
InLog(k) == pc[k] # "unused" /\ target[k] \in Ids(messages)
StaysInLog(k) == InLog(k) /\ target[k] \in Ids(messages')

\* position of the first done or error chunk a stream delivered, 0 if none
FirstTerminal(k) ==
  IF \E i \in DOMAIN delivered[k] : delivered[k][i].type \in {"done", "error"}
  THEN CHOOSE i \in DOMAIN delivered[k] :
         /\ delivered[k][i].type \in {"done", "error"}
         /\ \A j \in 1..(i-1) : delivered[k][j].type \notin {"done", "error"}
  ELSE 0

TerminatedBy(k, type) ==
  FirstTerminal(k) > 0 /\ delivered[k][FirstTerminal(k)].type = type

\* the stream of send k can produce no further event
Drained(k) == pc[k] = "finished"

\* C1: when a stream is fully drained, its target turn is completed if the
\* stream was terminated by done, error if it was terminated by error, and
\* stopped if stopStreaming interrupted it.
C1_FinalStatus ==
  \A k \in Sends :
    (Drained(k) /\ InLog(k)) =>
      LET st == Turn(messages, target[k]).status
      IN /\ (k \in aborted) => st = "stopped"
         /\ (k \notin aborted /\ TerminatedBy(k, "done")) => st = "completed"
         /\ (k \notin aborted /\ TerminatedBy(k, "error")) => st = "error"

\* C2: a turn whose status is completed, error or stopped keeps that status
\* in every step that does not remove it.
C2_TerminalAbsorbing ==
  [][\A i \in DOMAIN messages :
       (messages[i].status # "streaming" /\ messages[i].id \in Ids(messages'))
         => Turn(messages', messages[i].id).status = messages[i].status]_vars

\* C3: once a stream has delivered a done or error chunk, no later chunk of
\* that stream changes the content, citations, reasoning or toolCalls of its
\* target turn.
C3_NothingAppliedAfterTerminal ==
  [][\A k \in Sends :
       (FirstTerminal(k) > 0 /\ StaysInLog(k) /\ delivered'[k] # delivered[k])
         => LET old == Turn(messages, target[k])
                new == Turn(messages', target[k])
            IN /\ new.content = old.content
               /\ new.citations = old.citations
               /\ new.reasoning = old.reasoning
               /\ new.toolCalls = old.toolCalls]_vars

\* C4: after stopStreaming has cancelled a stream, no chunk that stream
\* delivers changes its target turn: the content stays the text accumulated
\* before the stop and the status stays stopped.
C4_NothingAppliedAfterStop ==
  [][\A k \in Sends :
       (k \in aborted /\ StaysInLog(k) /\ delivered'[k] # delivered[k])
         => Turn(messages', target[k]) = Turn(messages, target[k])]_vars

\* t1 + ... + tn of the token chunks of a chunk sequence, in order
RECURSIVE ConcatTokens(_)
ConcatTokens(chunks) ==
  IF chunks = <<>> THEN ""
  ELSE IF Head(chunks).type = "token"
       THEN Head(chunks).val \o ConcatTokens(Tail(chunks))
       ELSE ConcatTokens(Tail(chunks))

\* C5: the content of a placeholder turn is the concatenation, in delivery
\* order, of the token chunks its stream has delivered so far.
C5_ContentIsConcatenation ==
  \A k \in Sends :
    InLog(k) => Turn(messages, target[k]).content = ConcatTokens(delivered[k])

C5_Witness ==
  \E k \in Sends :
    /\ InLog(k)
    /\ Len(delivered[k]) >= 2
    /\ \A i \in DOMAIN delivered[k] : delivered[k][i].type = "token"
    /\ delivered[k][1].val # delivered[k][2].val
    /\ Turn(messages, target[k]).content = delivered[k][1].val \o delivered[k][2].val

C7_SendAppendsUserThenPlaceholder ==
  [][\A c \in Contents :
       (nSends' = nSends + 1 /\ SendMessage(c)) =>
         LET n == Len(messages)
         IN /\ Len(messages') = n + 2
            /\ SubSeq(messages', 1, n) = messages
            /\ messages'[n + 1].role = "user"
            /\ messages'[n + 1].content = c
            /\ messages'[n + 1].status = "completed"
            /\ messages'[n + 2].role = "assistant"
            /\ messages'[n + 2].content = ""
            /\ messages'[n + 2].status = "streaming"
            /\ messages'[n + 2].model = selectedModel
            /\ messages'[n + 1].id # messages'[n + 2].id
            /\ {messages'[n + 1].id, messages'[n + 2].id} \cap Ids(messages) = {}
            /\ Len(sendCalls') = 1]_vars

C7_Witness ==
  /\ Len(sendCalls) = 1
  /\ Len(messages) = 4
  /\ sendCalls[1].conversationHistory = SubSeq(messages, 1, 2)
  /\ messages[2].content = "Par"
  /\ messages[3].role = "user"
  /\ messages[4].status = "streaming"

\* C8: a regenerateResponse(id) step with an id that is not in the log leaves
\* the log unchanged, sets the error slot and starts no stream.
C8_NotFoundSetsError ==
  [][returned' = "regenerateResponse: messageIndex === -1"
       => /\ messages' = messages
          /\ error' # NoError
          /\ sendCalls' = <<>>
          /\ abortControllerRef' = abortControllerRef]_vars

\* C9: a regenerateResponse(id) step where id is the first turn, or the turn
\* before id is not a user turn, calls onError and changes neither the log,
\* nor the handle, nor isStreaming, and does not call the transport's send.
C9_NoUserTurnReportsErrorOnly ==
  [][\A idx \in DOMAIN messages :
       (delivered' = delivered /\ (pc' = pc \/ nSends' # nSends)
          /\ (idx = 1 \/ messages[idx - 1].role # "user")
          /\ FindIndex(messages, messages[idx].id) = idx
          /\ RegenerateResponse(messages[idx].id))
            => /\ messages' = messages
               /\ abortControllerRef' = abortControllerRef
               /\ isStreaming' = isStreaming
               /\ sendCalls' = <<>>
               /\ Len(onErrorCalls') = 1
               /\ onErrorCalls'[1].context = "regenerateResponse"]_vars

C9_Witness ==
  /\ Len(onErrorCalls) = 1
  /\ onErrorCalls[1].context = "regenerateResponse"
  /\ Len(messages) = 4
  /\ sendCalls = <<>>

C11_RegenerateKeepsOneUserTurn ==
  [][\A idx \in DOMAIN messages :
       (sendCalls' # <<>>
          /\ idx > 1 /\ messages[idx - 1].role = "user"
          /\ messages[idx].role = "assistant"
          /\ FindIndex(messages, messages[idx].id) = idx
          /\ RegenerateResponse(messages[idx].id))
            => /\ \A j \in idx..Len(messages) : messages[j].id \notin Ids(messages')
               /\ Len(messages') = idx
               /\ SubSeq(messages', 1, idx - 1) = SubSeq(messages, 1, idx - 1)
               /\ messages'[Len(messages')].role = "assistant"
               /\ messages'[Len(messages')].status = "streaming"]_vars

\* C12: every payload passed to handlers.sendMessage has message equal to the
\* content argument (the content of the user turn the call appended), model
\* equal to the selected model id, dataSources equal to the ids of the
\* selected sources in order, and conversationHistory equal to the log as it
\* stood when sendMessage was called, before its own two turns were appended
\* (after the truncation, when regenerateResponse made the call).
C12_PayloadMatchesCallTimeLog ==
  [][sendCalls' # <<>>
       => LET n == Len(messages')
              payload == sendCalls'[1]
          IN /\ Len(sendCalls') = 1
             /\ n >= 2
             /\ payload.message = messages'[n - 1].content
             /\ payload.model = selectedModel
             /\ Len(payload.dataSources) = Len(SelectedSources)
             /\ \A i \in DOMAIN SelectedSources :
                  payload.dataSources[i] = SelectedSources[i].id
             /\ payload.conversationHistory = SubSeq(messages', 1, n - 2)]_vars

\* C13: in every step, handlers.onError is invoked if and only if the error
\* slot is set to a non-null error in that step, and with the same error.
C13_ErrorSlotAndOnErrorTogether ==
  [][/\ onErrorCalls' # <<>>
          => Len(onErrorCalls') = 1 /\ error' = onErrorCalls'[1].error
     /\ (error' # NoError /\ error' # error)
          => Len(onErrorCalls') = 1 /\ onErrorCalls'[1].error = error']_vars


\* the step in which send k fails: its handlers.sendMessage call rejects, its
\* reader.read() throws, or (with chunks TRUE) its stream delivers an error chunk
SendFails(k, chunks) ==
  \/ \E e \in Rejections : SendMessageCatch(k, e)
  \/ \E e \in ReadFailures : ProcessStreamCatch(k, e)
  \/ chunks /\ \E chunk \in Chunks : chunk.type = "error" /\ ProcessStreamChunk(k, chunk)

C15_FailureReleasesHandle ==
  [][\A k \in Sends :
       (onErrorCalls' # <<>> /\ SendFails(k, FALSE))
         => abortControllerRef' = NoController /\ isStreaming' = FALSE]_vars

C15_Witness ==
  \E k \in Sends :
    /\ Drained(k)
    /\ delivered[k] # <<>>
    /\ Len(onErrorCalls) = 1
    /\ onErrorCalls[1].error \in ReadFailures
    /\ abortControllerRef = NoController
    /\ ~isStreaming

\* C16: the step that applies a done or error chunk of the active stream
\* finalizes: isStreaming becomes false, the handle becomes null and the
\* stream's consumer has returned, with no further event from the transport.
C16_FinalizesOnTerminalChunk ==
  [][\A k \in Sends :
       (abortControllerRef = k /\ delivered'[k] # delivered[k]
          /\ delivered'[k][Len(delivered'[k])].type \in {"done", "error"})
         => /\ isStreaming' = FALSE
            /\ abortControllerRef' = NoController
            /\ Drained(k)']_vars

\* C17: when a stream closes without having delivered any chunk, its
\* placeholder has content "" and its status is no longer streaming.
C17_EmptyStreamFinalized ==
  [][\A k \in Sends :
       (delivered[k] = <<>> /\ StaysInLog(k) /\ ProcessStreamClosed(k))
         => /\ Turn(messages', target[k]).content = ""
            /\ Turn(messages', target[k]).status # "streaming"]_vars

\* C18: a stopStreaming() step with an active handle calls
\* handlers.stopStreaming exactly once, with that handle, turns the streaming
\* turn to stopped (content kept, no other turn changed), and leaves the handle
\* null and isStreaming false; a stopStreaming() step directly after it makes
\* no call.
C18_StopCallsTransportOnce ==
  [][/\ (abortControllerRef # NoController /\ StopStreaming)
          => /\ stopCalls' = <<abortControllerRef>>
             /\ abortControllerRef' = NoController
             /\ isStreaming' = FALSE
             /\ Len(messages') = Len(messages)
             /\ \A i \in DOMAIN messages :
                  IF messages[i].status = "streaming"
                  THEN messages'[i] = [messages[i] EXCEPT !.status = "stopped"]
                  ELSE messages'[i] = messages[i]
     /\ (stopCalls # <<>> /\ StopStreaming) => stopCalls' = <<>>]_vars

C18_Witness ==
  \E k \in Sends :
    /\ stopCalls = <<k>>
    /\ InLog(k)
    /\ delivered[k] # <<>>
    /\ Turn(messages, target[k]).status = "stopped"
    /\ Turn(messages, target[k]).content = "Par"
    /\ abortControllerRef = NoController
    /\ ~isStreaming

\* C19: a stopStreaming() step with no active handle changes neither the log,
\* nor the error slot, nor isStreaming, nor the handle, and does not call
\* handlers.stopStreaming.
C19_StopWithoutHandleIsNoOp ==
  [][(abortControllerRef = NoController /\ StopStreaming)
       => /\ messages' = messages
          /\ error' = error
          /\ isStreaming' = isStreaming
          /\ abortControllerRef' = NoController
          /\ stopCalls' = <<>>]_vars

C19_Witness ==
  /\ returned = "stopStreaming: controller === null"
  /\ abortControllerRef = NoController
  /\ error # NoError
  /\ \E i \in DOMAIN messages : messages[i].status = "streaming"

\* C20: after stopStreaming has cancelled a stream, no event of that stream
\* (a chunk, its closure, a failed read or send call) sets the error slot,
\* invokes handlers.onError, or turns the cancelled turn's status to error.
C20_CancellationNeverAnError ==
  [][\A k \in aborted :
       (delivered'[k] # delivered[k] \/ pc'[k] # pc[k])
         => /\ error' = error
            /\ onErrorCalls' = <<>>
            /\ StaysInLog(k)
                 => \/ Turn(messages', target[k]).status # "error"
                    \/ Turn(messages, target[k]).status = "error"]_vars


\* C21: a clearMessages() step leaves the log empty, the error slot null,
\* isStreaming false and the handle null, and does not call
\* handlers.stopStreaming for the stream it abandons.
C21_ClearResetsLocalStateOnly ==
  [][ClearMessages
       => /\ messages' = <<>>
          /\ error' = NoError
          /\ isStreaming' = FALSE
          /\ abortControllerRef' = NoController
          /\ stopCalls' = <<>>
          /\ aborted' = aborted
          /\ pc' = pc]_vars

C21_Witness ==
  \E k \in Sends :
    /\ messages = <<>>
    /\ pc[k] = "reading"
    /\ k \notin aborted
    /\ delivered[k] # <<>>
    /\ error = NoError
    /\ abortControllerRef = NoController
    /\ ~isStreaming
    /\ stopCalls = <<>>

\* C22: no step calls handlers.sendMessage more than once; a step calls it
\* only as a sendMessage or regenerateResponse operation, which counts one
\* call; and the step that handles a rejected call, a failed read or an error
\* chunk does not call it.
C22_NoAutomaticRetry ==
  [][/\ Len(sendCalls') <= 1
     /\ nSends' = nSends + Len(sendCalls')
     /\ sendCalls' # <<>>
          => \/ \E c \in Contents : SendMessage(c)
             \/ \E id \in Ids(messages) : RegenerateResponse(id)
     /\ \A k \in Sends :
          (onErrorCalls' # <<>> /\ SendFails(k, TRUE)) => sendCalls' = <<>>]_vars

C22_Witness ==
  \E k \in Sends :
    /\ nSends = k
    /\ Drained(k)
    /\ InLog(k)
    /\ Turn(messages, target[k]).status = "error"
    /\ Len(onErrorCalls) = 1
    /\ onErrorCalls[1].context = "sendMessage"
    /\ sendCalls = <<>>

\* C23: the step in which the consumer of a stream exits (the stream closed,
\* or the read failed, cancelled or not) releases the reader it acquired,
\* once.
C23_ReaderReleasedOnExit ==
  [][\A k \in Sends :
       (pc[k] = "reading" /\ Drained(k)') => releaseCalls' = <<k>>]_vars


\* some stream is still being consumed: a send call is pending or a consumer
\* is in its read loop
StreamActive == \E k \in Sends : pc[k] \in {"awaitSend", "reading"}

\* C24 (under SpecUI): every step of the presentation layer that calls
\* handlers.sendMessage (a submit or a regenerate that was let through) is
\* taken while isStreaming is false and no earlier stream is being consumed.
C24_NoNewStreamWhileActive ==
  [][sendCalls' # <<>> => (~isStreaming /\ ~StreamActive)]_vars

\* C24, first half alone: no call while isStreaming is true
C24_NoCallWhileStreaming ==
  [][sendCalls' # <<>> => ~isStreaming]_vars


\* the state InitStream starts in, as a state of Spec
InitStreamReached ==
  /\ Len(messages) = 4
  /\ nSends = 2
  /\ pc[1] = "reading" /\ pc[2] = "reading"
  /\ delivered[1] = <<>> /\ delivered[2] = <<>>
  /\ target[1] = 2 /\ target[2] = 4
  /\ abortControllerRef = 2 /\ isStreaming /\ ~isLoading
  /\ aborted = {} /\ error = NoError
  /\ messages[1].content = "Hello" /\ messages[3].content = "Why"
  /\ messages[2].status = "streaming" /\ messages[4].status = "streaming"


\* the chunk-application switch applied to a whole chunk list, in list order
RECURSIVE FoldChunks(_, _)
FoldChunks(msg, chunks) ==
  IF chunks = <<>> THEN msg
  ELSE FoldChunks(ApplyChunkToMessage(msg, Head(chunks)), Tail(chunks))

\* C25 (under SpecStream): after every delivery, the target turn is the fresh
\* placeholder with the delivered chunks applied in delivery order, whatever
\* their sequence numbers (decreasing, repeated, with gaps).
C25_AppliedInDeliveryOrder ==
  \A k \in Sends :
    InLog(k) =>
      Turn(messages, target[k])
        = FoldChunks(AssistantMessage(target[k], selectedModel), delivered[k])

C25_Witness ==
  /\ Len(delivered[1]) = 2 /\ Len(delivered[2]) = 2
  /\ delivered[1][1].sequence > delivered[1][2].sequence + 1
  /\ delivered[2][1].sequence = delivered[2][2].sequence
  /\ delivered[1][1] = [type |-> "token", val |-> "Par", sequence |-> 9]
  /\ delivered[1][2] = [type |-> "token", val |-> "is", sequence |-> 4]
  /\ Turn(messages, target[1]).content = "Paris"
  /\ delivered[2][1].type = "citation" /\ delivered[2][2].type = "citation"
  /\ Turn(messages, target[2]).citations = <<"guide.pdf", "faq.pdf">>

\* the chunks of a list without their sequence numbers
ChunkPayloads(chunks) ==
  [i \in DOMAIN chunks |-> [type |-> chunks[i].type, val |-> chunks[i].val]]

RECURSIVE ValuesOf(_, _)
ValuesOf(type, chunks) ==
  IF chunks = <<>> THEN <<>>
  ELSE IF Head(chunks).type = type
       THEN <<Head(chunks).val>> \o ValuesOf(type, Tail(chunks))
       ELSE ValuesOf(type, Tail(chunks))

\* the text of the last reasoning chunk of a list, NoValue if it has none
LastReasoning(chunks) ==
  LET texts == ValuesOf("reasoning", chunks)
  IN IF texts = <<>> THEN NoValue ELSE texts[Len(texts)]

\* C27 (under SpecStream): while no chunk has followed a terminal chunk, the
\* target turn's citations are the citation chunks' citations in delivery
\* order, its toolCalls the tool_call chunks' tool calls in delivery order,
\* and its reasoning the text of the last reasoning chunk.
C27_AnnotationsFollowDelivery ==
  \A k \in Sends :
    (InLog(k) /\ FirstTerminal(k) \in {0, Len(delivered[k])})
      => LET turn == Turn(messages, target[k])
         IN /\ turn.citations = ValuesOf("citation", delivered[k])
            /\ turn.toolCalls = ValuesOf("tool_call", delivered[k])
            /\ turn.reasoning = LastReasoning(delivered[k])

\* the fields of a turn each chunk type must leave unchanged
SameContent(old, new) == new.content = old.content
SameStatus(old, new) == new.status = old.status
SameToolCalls(old, new) == new.toolCalls = old.toolCalls
SameAnnotations(old, new) ==
  /\ new.citations = old.citations
  /\ new.reasoning = old.reasoning
  /\ new.model = old.model

\* C28 (under SpecStream): a delivery changes, of its target turn, only the
\* field named for the chunk's type: token only content; citation only
\* citations; reasoning only reasoning; tool_call only toolCalls; done only
\* status; and it changes no other turn.
C28_ChunkChangesOnlyItsField ==
  [][\A k \in Sends :
       (delivered'[k] # delivered[k] /\ StaysInLog(k))
         => LET old == Turn(messages, target[k])
                new == Turn(messages', target[k])
                type == delivered'[k][Len(delivered'[k])].type
            IN /\ \A i \in DOMAIN messages :
                    messages[i].id # target[k] => messages'[i] = messages[i]
               /\ new.id = old.id /\ new.role = old.role
               /\ type = "token"
                    => SameStatus(old, new) /\ SameAnnotations(old, new)
                         /\ SameToolCalls(old, new)
               /\ type = "citation"
                    => /\ SameContent(old, new) /\ SameStatus(old, new)
                       /\ SameToolCalls(old, new)
                       /\ new.reasoning = old.reasoning /\ new.model = old.model
               /\ type = "reasoning"
                    => /\ SameContent(old, new) /\ SameStatus(old, new)
                       /\ SameToolCalls(old, new)
                       /\ new.citations = old.citations /\ new.model = old.model
               /\ type = "tool_call"
                    => SameContent(old, new) /\ SameStatus(old, new)
                         /\ SameAnnotations(old, new)
               /\ type = "done"
                    => SameContent(old, new) /\ SameAnnotations(old, new)
                         /\ SameToolCalls(old, new)]_vars


\* C29: a chunk delivered by a stream whose target turn is no longer in the
\* log leaves the log unchanged.
C29_ChunkForMissingTurnIsNoOp ==
  [][\A k \in Sends :
       (pc[k] # "unused" /\ target[k] \notin Ids(messages)
          /\ delivered'[k] # delivered[k])
         => messages' = messages]_vars

C29_Witness ==
  /\ nSends = 1
  /\ messages = <<>>
  /\ pc[1] = "reading"
  /\ Len(delivered[1]) = 1
  /\ delivered[1][1].type = "error"
  /\ Len(onErrorCalls) = 1
  /\ onErrorCalls[1].error \in ErrorTexts

\* the ids of the turns of a log, in log order
IdSeq(log) == [i \in DOMAIN log |-> log[i].id]
IsPrefix(a, b) == Len(a) <= Len(b) /\ SubSeq(b, 1, Len(a)) = a

\* C30: in every step other than clearMessages and regenerateResponse, the
\* sequence of turn ids before the step is a prefix of the sequence after it.
C30_OnlyClearAndRegenerateDestroy ==
  [][\/ IsPrefix(IdSeq(messages), IdSeq(messages'))
     \/ ClearMessages
     \/ \E id \in Ids(messages) : RegenerateResponse(id)]_vars

C30_Witness ==
  \E k \in Sends :
    /\ Drained(k)
    /\ InLog(k)
    /\ Len(messages) = 4
    /\ target[k] = messages[2].id
    /\ messages[2].status = "error"
    /\ messages[4].status = "stopped"
    /\ Len(onErrorCalls) = 1
    /\ onErrorCalls[1].context = "stream"

\* the contexts the latest step passed to handlers.onError
Contexts == [i \in DOMAIN onErrorCalls' |-> onErrorCalls'[i].context]

\* C31: the context passed to onError names the failing operation:
\* "sendMessage" when handlers.sendMessage rejects, "stream" when an error
\* chunk is delivered or a read throws, and "regenerateResponse" for both
\* validation failures of regenerateResponse (target not found, preceding
\* user turn missing).
C31_OnErrorContextNamesOperation ==
  [][/\ \A k \in Sends :
          /\ (pc[k] = "awaitSend" /\ pc'[k] = "finished") => Contexts = <<"sendMessage">>
          /\ (pc[k] = "reading" /\ pc'[k] = "finished" /\ messages' # messages)
               => Contexts = <<"stream">>
          /\ (delivered'[k] # delivered[k]
                /\ delivered'[k][Len(delivered'[k])].type = "error")
               => Contexts = <<"stream">>
     /\ \A id \in 0..(nextId - 1) :
          (/\ nSends' = nSends /\ pc' = pc /\ delivered' = delivered
           /\ messages' = messages /\ error' = error
           /\ isStreaming' = isStreaming /\ abortControllerRef' = abortControllerRef
           /\ (FindIndex(messages, id) = 0
                 \/ ~HasUserMessage(messages, FindIndex(messages, id)))
           /\ RegenerateResponse(id))
            => Contexts = <<"regenerateResponse">>]_vars

\* C32: when a stream delivers an error chunk, the error slot holds the
\* chunk's error text, and no later chunk of the same stream clears or
\* replaces that message.
C32_ErrorChunkMessageStays ==
  [][\A k \in Sends :
       delivered'[k] # delivered[k] =>
         LET chunk == delivered'[k][Len(delivered'[k])]
         IN /\ chunk.type = "error" => error' = chunk.val
            /\ (\E i \in DOMAIN delivered[k] :
                  delivered[k][i].type = "error" /\ error = delivered[k][i].val)
                 => error' = error]_vars

\* C33: a regenerateResponse(id) that passes validation is a resend: the step
\* calls handlers.sendMessage exactly once, with message equal to the content
\* of the user turn immediately before the regenerated turn, and it does not
\* call handlers.regenerateResponse.
C33_RegenerateIsResend ==
  [][\A idx \in DOMAIN messages :
       (sendCalls' # <<>>
          /\ HasUserMessage(messages, idx)
          /\ FindIndex(messages, messages[idx].id) = idx
          /\ RegenerateResponse(messages[idx].id))
            => /\ Len(sendCalls') = 1
               /\ sendCalls'[1].message = messages[idx - 1].content
               /\ regenerateCalls' = <<>>]_vars

\* the second answer of a two-question conversation was regenerated: the
\* resend carries the second question, not the first
C33_Witness ==
  /\ Len(messages) = 5
  /\ messages[1].content = "Hello"
  /\ messages[3].role = "user" /\ messages[3].content = "Why"
  /\ messages[4].role = "user"
  /\ Len(sendCalls) = 1 /\ sendCalls[1].message = "Why"
  /\ regenerateCalls = <<>>

\* C34: a stopStreaming step that holds a controller changes the status of
\* the turn the controller's stream writes into and of no other turn: every
\* other turn, streaming or not, keeps its status.
C34_StopChangesOnlyActiveTurn ==
  [][(stopCalls' # <<>> /\ StopStreaming)
       => /\ Len(messages') = Len(messages)
          /\ \A i \in DOMAIN messages :
               messages[i].id # target[abortControllerRef]
                 => messages'[i].status = messages[i].status]_vars

\* C35: when the consumer of one stream exits while the controller of a
\* later send is installed, the exit leaves that controller installed and
\* isStreaming true.
C35_StreamEndKeepsLaterHandle ==
  [][\A k \in Sends :
       (pc[k] = "reading" /\ pc'[k] = "finished"
          /\ abortControllerRef # NoController /\ abortControllerRef # k)
         => /\ abortControllerRef' = abortControllerRef
            /\ isStreaming']_vars

\* C36: whenever no controller is installed, isStreaming is false and the
\* consumer of every stream has exited, no turn of the log has status
\* streaming.
C36_IdleLogHasNoStreamingTurn ==
  (abortControllerRef = NoController /\ ~isStreaming /\ ~StreamActive)
    => \A i \in DOMAIN messages : messages[i].status # "streaming"

\* C37: in every state, isStreaming is true exactly when a controller is
\* installed in abortControllerRef.
C37_StreamingIffHandleHeld ==
  isStreaming <=> (abortControllerRef # NoController)

\* a first stream has ended (flag and controller cleared together) and a
\* second send has set both again
C37_Witness ==
  /\ pc[1] = "finished" /\ delivered[1] # <<>>
  /\ pc[2] = "reading"
  /\ isStreaming /\ abortControllerRef = 2

\* C38: with two streams in flight, a chunk delivered by one stream changes
\* no turn other than the placeholder of the send that obtained that stream,
\* in every interleaving of the two streams' chunks.
C38_NoCrossTalk ==
  [][\A k \in Sends :
       delivered'[k] # delivered[k]
         => /\ Len(messages') = Len(messages)
            /\ \A i \in DOMAIN messages :
                 messages[i].id # target[k] => messages'[i] = messages[i]]_vars

\* both streams have delivered, interleaved, and each placeholder holds its
\* own stream's text
C38_Witness ==
  /\ Len(delivered[1]) = 2 /\ Len(delivered[2]) = 2
  /\ Turn(messages, target[1]).content = "Paris"
  /\ Turn(messages, target[2]).content = "isPar"
  /\ Turn(messages, target[1]).status = "streaming"
  /\ Turn(messages, target[2]).status = "streaming"

\* C39: once the target turn of a stream is no longer in the log (after
\* clearMessages, or after regenerateResponse removed it), an error chunk or
\* a read failure of that stream does not set the error slot and does not
\* call handlers.onError.
C39_AbandonedStreamRaisesNoError ==
  [][\A k \in Sends :
       (pc[k] = "reading" /\ target[k] \notin Ids(messages)
          /\ (delivered'[k] # delivered[k] \/ pc'[k] = "finished"))
         => /\ error' = error
            /\ onErrorCalls' = <<>>]_vars

=============================================================================
